---- MODULE Spec2Model ----
(***************************************************************************)
(* rileyviewer client: session establishment (Viewer.__init__), the        *)
(* publish client (Viewer._http_publish), the serializer dispatch of       *)
(* Viewer.show (adapters.send_object_http), capture and shutdown, together *)
(* with the environment they coordinate with: the detached server          *)
(* processes, the state file server.json and the HTTP transport.           *)
(*                                                                         *)
(* Python values: None is the string "None"; a str is a TLA+ string; a     *)
(* dict is a TLA+ function from keys to values (the empty dict is <<>>).   *)
(* Times are in milliseconds.                                              *)
(***************************************************************************)
EXTENDS Integers, Sequences, FiniteSets, TLC

(* ------------------------------ bounds -------------------------------- *)

\* publish calls made by one Viewer
MaxCalls == 2
\* polls of the wait loop a starting server may take before it has bound or exited
MaxStartPolls == 3
\* figures pyplot hands out
MaxFigs == 3
\* longest byte string handed to send_png_bytes
MaxBytes == 3

(* ------------------------- program constants -------------------------- *)

DEFAULT_PORT == 7878
DEFAULT_HOST == "127.0.0.1"
\* range(50) of the wait loop
MaxPolls == 50
\* max_retries: int = 3
max_retries == 3
\* time.sleep(0.1 * (2 ** attempt)), in milliseconds
BackoffBaseMs == 100
\* port: Optional[int] = None
NoPort == -1

Viewers == {1, 2}
Ports == {DEFAULT_PORT, 7879}
HostArgs == {"None", DEFAULT_HOST}
PortArgs == {NoPort} \cup Ports
TokenArgs == {"None", "", "tokA"}
\* MatplotlibFormat = Literal["svg", "png"]
MatplotlibFormat == {"svg", "png"}
\* a keyword argument the caller left out
NotGiven == "NotGiven"
FormatArgs == {NotGiven} \cup MatplotlibFormat

(* --------------------------- Python helpers --------------------------- *)

\* truth value of an Optional[str]
Truthy(s) == s \notin {"None", ""}

\* f"{host}:{port}"
PortStr(p) == CASE p = 7878 -> "7878" [] p = 7879 -> "7879" [] OTHER -> "?"
AddrStr(h, p) == h \o ":" \o PortStr(p)

RECURSIVE Pow2(_)
Pow2(n) == IF n = 0 THEN 1 ELSE 2 * Pow2(n - 1)

(* ---------------------------- state file ------------------------------ *)

\* JSON documents a state file may hold; null parses to Python's None
JsonNull == [kind |-> "null"]
JsonList(n) == [kind |-> "list", len |-> n]
JsonDict(d) == [kind |-> "dict", val |-> d]
\* not a document: the exception that escapes _read_server_state()
JsonRaise(e) == [kind |-> "raise", exc |-> e]

\* the record the server persists: {"addr": ..., "token": ...}
StateRecord(a, t) == JsonDict([addr |-> a, token |-> t])

FileMissing == [cond |-> "missing"]
FileUnreadable == [cond |-> "unreadable"]
FileBadJson == [cond |-> "badjson"]
\* bytes that are not UTF-8: read_text() raises UnicodeDecodeError
FileUndecodable == [cond |-> "undecodable"]
FileJson(j) == [cond |-> "json", doc |-> j]

\* bool(state) of a parsed JSON document
JsonTruthy(j) ==
  CASE j.kind = "null" -> FALSE
    [] j.kind = "list" -> j.len > 0
    [] j.kind = "dict" -> DOMAIN j.val # {}

\* _read_server_state(): the parsed document, or None (JsonNull)
\* (JsonRaise when the exception is none of those line 39 catches)
ReadServerState(file) ==
  IF file.cond = "missing" THEN JsonNull
  ELSE IF file.cond \in {"unreadable", "badjson"} THEN JsonNull
  ELSE IF file.cond = "undecodable" THEN JsonRaise("UnicodeDecodeError")
  ELSE file.doc

\* state.get(key) of a dict
Get(d, key) == IF key \in DOMAIN d THEN d[key] ELSE "None"

AdoptToken_AnyRecord(state, addr, tok) ==
  IF state.kind = "raise" THEN [raised |-> state.exc, token |-> tok]
  ELSE IF ~JsonTruthy(state) THEN [raised |-> "None", token |-> tok]
  ELSE IF state.kind # "dict" THEN [raised |-> "AttributeError", token |-> tok]
  ELSE [raised |-> "None", token |-> Get(state.val, "token")]

\* the outcome of `if state and state.get("addr") == addr: token = state.get("token")`
\* applied to session token tok: the new token, or an AttributeError when
\* the document is truthy and has no .get
AdoptToken(state, addr, tok) ==
  IF state.kind = "raise" THEN [raised |-> state.exc, token |-> tok]
  ELSE IF ~JsonTruthy(state) THEN [raised |-> "None", token |-> tok]
  ELSE IF state.kind # "dict" THEN [raised |-> "AttributeError", token |-> tok]
  ELSE IF Get(state.val, "addr") = addr
       THEN [raised |-> "None", token |-> Get(state.val, "token")]
       ELSE [raised |-> "None", token |-> tok]

(* --------------------------- health probe ----------------------------- *)

NoServer == [up |-> FALSE]
Server(t) == [up |-> TRUE, token |-> t]
\* the port is held by a service that does not speak HTTP
Foreign == [up |-> FALSE, foreign |-> TRUE]

\* what GET /health can meet at a port
ProbeOutcomes(srv) ==
  IF srv.up THEN {[kind |-> "status", code |-> 200]}
  ELSE IF srv = Foreign THEN {[kind |-> "badstatus"]}
  ELSE {[kind |-> "refused"], [kind |-> "timeout"],
        [kind |-> "status", code |-> 204], [kind |-> "status", code |-> 404],
        [kind |-> "status", code |-> 503]}

\* what urlopen(url, timeout=0.5) does with the outcome: the response it
\* returns (2xx), or the exception it raises
UrlOpen(o) ==
  CASE o.kind = "refused" -> [raises |-> "URLError"]
    [] o.kind = "timeout" -> [raises |-> "TimeoutError"]
    [] o.kind = "badstatus" -> [raises |-> "BadStatusLine"]
    [] o.kind = "status" -> IF o.code \in 200..299
                            THEN [raises |-> "None", status |-> o.code]
                            ELSE [raises |-> "HTTPError"]

\* line 50: except (urllib.error.URLError, TimeoutError, OSError);
\* HTTPError is a URLError, BadStatusLine is an http.client.HTTPException
ProbeCatches(exc) == exc \in {"URLError", "HTTPError", "TimeoutError", "OSError"}

\* the exception _check_server_running lets through, "None" when it returns
CheckServerRaises(o) ==
  LET r == UrlOpen(o) IN
  IF r.raises # "None" /\ ~ProbeCatches(r.raises) THEN r.raises ELSE "None"

\* _check_server_running(host, port), when it returns
CheckServerRunning(o) ==
  LET r == UrlOpen(o) IN
  IF r.raises = "None" THEN r.status = 200 ELSE FALSE

(* ------------------------------ state --------------------------------- *)

VARIABLES
  pc,        \* pc[v]: position of Viewer v
  sess,      \* sess[v]: _host, _port, _token
  est,       \* est[v]: establishment bookkeeping
  pub,       \* pub[v]: the publish call in progress or last finished
  serving,   \* serving[p]: the server bound to port p
  pending,   \* launched server processes that have not bound yet
  stateFile, \* server.json
  cliFound,  \* whether _find_cli_binary() resolves an executable
  artifacts, \* artifacts accepted by the servers, in arrival order
  osEnv,     \* sys.platform, and whether the OS can start the executable
  inflight,  \* requests whose attempt timed out before the server got them
  shows      \* shows[v]: show / capture / shutdown bookkeeping of Viewer v

vars == <<pc, sess, est, pub, serving, pending, stateFile, cliFound, artifacts,
          osEnv, inflight, shows>>

Addr(v) == AddrStr(sess[v].host, sess[v].port)

NoSess == [host |-> "None", port |-> NoPort, token |-> "None", default_format |-> "svg"]
NoEst == [probes |-> 0, polls |-> 0, healthyAt |-> 0, spawns |-> 0,
          via |-> "none", err |-> "None", tokenArg |-> "None", seen |-> FileMissing,
          after |-> {}, formatArg |-> NotGiven, spawned |-> "none",
          launched |-> "none"]
NoPub == [calls |-> 0, attempt |-> 0, req |-> <<>>, hist |-> <<>>, sleeps |-> <<>>,
          last_error |-> [at |-> 0, kind |-> "None"], ret |-> [kind |-> "none"],
          sent |-> <<>>, call |-> [op |-> "none", arg |-> <<>>]]

NoShow == [shut |-> FALSE, last |-> [kind |-> "none"], ctx |-> "none",
           captured |-> <<>>, closed |-> {}]

\* sys.platform, and whether starting the resolved executable succeeds
OsEnv(platform, starts) == [platform |-> platform, starts |-> starts]
UnixStarts == OsEnv("unix", TRUE)

\* state files left behind by earlier servers (or by anything else)
CoreFiles ==
  {FileMissing, FileBadJson, FileJson(JsonList(1)),
   FileJson(JsonDict([addr |-> AddrStr(DEFAULT_HOST, DEFAULT_PORT)]))}
  \cup {FileJson(StateRecord(AddrStr(DEFAULT_HOST, p), "tok0")) : p \in Ports}

\* before any Viewer is constructed: a server may already serve the default
\* port, and the state file is one of `files`
InitEnv(files, servers, envs) ==
  /\ pc = [v \in Viewers |-> "new"]
  /\ sess = [v \in Viewers |-> NoSess]
  /\ est = [v \in Viewers |-> NoEst]
  /\ pub = [v \in Viewers |-> NoPub]
  /\ serving \in {[p \in Ports |-> IF p = DEFAULT_PORT THEN s ELSE NoServer] :
                   s \in servers}
  /\ pending = {}
  /\ stateFile \in files
  /\ cliFound \in BOOLEAN
  /\ artifacts = <<>>
  /\ osEnv \in envs
  /\ inflight = {}
  /\ shows = [v \in Viewers |-> NoShow]

\* a Unix host on which the executable, once found, starts
InitWith(files) ==
  InitEnv(files, {NoServer, Server("tok0"), Server("None")}, {UnixStarts})

Init == InitWith(CoreFiles)

\* every condition server.json can be in
AllFiles ==
  CoreFiles \cup {FileUnreadable, FileUndecodable, FileJson(JsonNull),
                  FileJson(JsonList(0)), FileJson(JsonDict(<<>>)),
                  FileJson(JsonDict([token |-> "tok0"]))}

\* every host a Viewer can run on
AllOsEnvs == {OsEnv(pf, st) : pf \in {"unix", "win32"}, st \in BOOLEAN}

(* ------------------------ server process (external) ------------------- *)

\* the command line built by _spawn_server: --token only for a truthy token;
\* a server started without one makes its own. mode: the process either
\* starts up ("starts") or never gets as far as writing its state ("stuck")
ServerProcess(v, host, port, token, mode) ==
  [by |-> v, addr |-> AddrStr(host, port), port |-> port,
   token |-> IF Truthy(token) THEN token ELSE IF v = 1 THEN "gen1" ELSE "gen2",
   wrote |-> FALSE, mode |-> mode]

\* _spawn_server(...): the boolean it returns and the processes it may have started
\* lines 109-133: win32 returns False when Popen raises OSError; the Unix
\* branch returns True whatever os.system did (it raises no OSError when
\* the shell cannot start the program)
SpawnReturns(platform, started) ==
  IF platform = "win32" THEN started ELSE TRUE

SpawnServer(v, host, port, token) ==
  IF ~cliFound THEN [ok |-> FALSE, procs |-> {{}}]
  ELSE IF ~osEnv.starts
       THEN [ok |-> SpawnReturns(osEnv.platform, FALSE), procs |-> {{}}]
  ELSE [ok |-> SpawnReturns(osEnv.platform, TRUE),
        procs |-> {{ServerProcess(v, host, port, token, m)} : m \in {"starts", "stuck"}}]

\* a server that starts does so within MaxStartPolls polls of every waiting Viewer
StartsInTime(v) ==
  \A p \in pending : p.mode = "starts" /\ p.port = sess[v].port
                        => est[v].polls < MaxStartPolls

\* the server persists its state record before it binds
ServerWriteState(p) ==
  /\ p \in pending
  /\ p.mode = "starts"
  /\ ~p.wrote
  /\ stateFile' = FileJson(StateRecord(p.addr, p.token))
  /\ pending' = (pending \ {p}) \cup {[p EXCEPT !.wrote = TRUE]}
  /\ UNCHANGED <<pc, sess, est, pub, serving, cliFound, artifacts, osEnv, inflight, shows>>

\* ... and then binds the port, or exits when the port is taken
ServerBind(p) ==
  /\ p \in pending
  /\ p.wrote
  /\ pending' = pending \ {p}
  /\ serving' = IF serving[p.port] # NoServer THEN serving
                ELSE [serving EXCEPT ![p.port] = Server(p.token)]
  /\ UNCHANGED <<pc, sess, est, pub, stateFile, cliFound, artifacts, osEnv, inflight, shows>>

(* ---------------------- Viewer.__init__ ------------------------------- *)

\* lines 149-155
ConstructWith(v, hostArg, portArg, tokenArg, formatArg) ==
  /\ pc[v] = "new"
  /\ sess' = [sess EXCEPT ![v] =
       [host |-> IF Truthy(hostArg) THEN hostArg ELSE DEFAULT_HOST,
        port |-> IF portArg # NoPort THEN portArg ELSE DEFAULT_PORT,
        token |-> tokenArg,
        default_format |-> IF formatArg = NotGiven THEN "svg" ELSE formatArg]]
  /\ est' = [est EXCEPT ![v].tokenArg = tokenArg,
                        ![v].formatArg = formatArg,
                        ![v].after = {w \in Viewers : pc[w] = "Ready"}]
  /\ pc' = [pc EXCEPT ![v] = "Probing"]
  /\ UNCHANGED <<pub, serving, pending, stateFile, cliFound, artifacts, osEnv, inflight, shows>>

\* line 158: the first health probe
Probe(v) ==
  /\ pc[v] = "Probing"
  /\ \E o \in ProbeOutcomes(serving[sess[v].port]) :
       LET alive == CheckServerRunning(o)
           exc == CheckServerRaises(o)
       IN
       /\ est' = [est EXCEPT ![v].probes = @ + 1,
                             ![v].healthyAt = IF alive THEN est[v].probes + 1 ELSE @,
                             ![v].err = exc]
       /\ pc' = [pc EXCEPT ![v] = IF exc # "None" THEN "Failed"
                                  ELSE IF alive THEN "Adopting" ELSE "Launching"]
  /\ UNCHANGED <<sess, pub, serving, pending, stateFile, cliFound, artifacts, osEnv, inflight, shows>>

ReadsStateOnAdopt_Always(token) == TRUE

ReadsStateOnAdopt_Inverted(token) == Truthy(token)

\* line 160: `if not self._token`
ReadsStateOnAdopt(token) == ~Truthy(token)

\* lines 160-163: server running, take the token from the state file
Adopt(v) ==
  /\ pc[v] = "Adopting"
  /\ LET r == IF ReadsStateOnAdopt(sess[v].token)
              THEN AdoptToken(ReadServerState(stateFile), Addr(v), sess[v].token)
              ELSE [raised |-> "None", token |-> sess[v].token]
     IN /\ sess' = [sess EXCEPT ![v].token = r.token]
        /\ est' = [est EXCEPT ![v].via = "adopt", ![v].err = r.raised,
                              ![v].seen = stateFile]
        /\ pc' = [pc EXCEPT ![v] = IF r.raised = "None" THEN "Ready" ELSE "Failed"]
  /\ UNCHANGED <<pub, serving, pending, stateFile, cliFound, artifacts, osEnv, inflight, shows>>

AfterSpawn_Ignore(ok) == "Waiting"

AfterSpawn_Negated(ok) == IF ok THEN "Failed" ELSE "Waiting"

\* lines 166-167: `if not _spawn_server(...): raise CLINotFoundError()`
AfterSpawn(ok) == IF ok THEN "Waiting" ELSE "Failed"

AfterPoll_NoBreak(alive, last) ==
  IF last THEN (IF alive THEN "Reading" ELSE "Failed") ELSE "Waiting"

AfterPoll_NoDeadline(alive, last) == IF alive THEN "Reading" ELSE "Waiting"

\* lines 173-179: break on a healthy probe, the for-else after the last poll
AfterPoll(alive, last) ==
  IF alive THEN "Reading" ELSE IF last THEN "Failed" ELSE "Waiting"

\* lines 166-167: start a server, CLINotFoundError when that fails
Launch(v) ==
  /\ pc[v] = "Launching"
  /\ LET r == SpawnServer(v, sess[v].host, sess[v].port, sess[v].token) IN
       /\ \E ps \in r.procs :
            /\ pending' = pending \cup ps
            /\ est' = [est EXCEPT ![v].spawns = @ + 1, ![v].via = "launch",
                                  ![v].err = IF AfterSpawn(r.ok) = "Failed"
                                             THEN "CLINotFoundError" ELSE "None",
                                  ![v].spawned = IF r.ok THEN "True" ELSE "False",
                                  ![v].launched = IF ps = {} THEN "none"
                                                  ELSE (CHOOSE q \in ps : TRUE).mode]
       /\ pc' = [pc EXCEPT ![v] = AfterSpawn(r.ok)]
  /\ UNCHANGED <<sess, pub, serving, stateFile, cliFound, artifacts, osEnv, inflight, shows>>

\* lines 171-179: one iteration of the wait loop, ServerStartError after the last
Poll(v) ==
  /\ pc[v] = "Waiting"
  /\ est[v].polls < MaxPolls
  /\ StartsInTime(v)
  /\ \E o \in ProbeOutcomes(serving[sess[v].port]) :
       LET alive == CheckServerRunning(o)
           exc == CheckServerRaises(o)
           last == est[v].polls + 1 = MaxPolls
       IN
       /\ est' = [est EXCEPT ![v].polls = @ + 1, ![v].probes = @ + 1,
                             ![v].healthyAt = IF alive /\ @ = 0 THEN est[v].probes + 1 ELSE @,
                             ![v].err = IF exc # "None" THEN exc
                                        ELSE IF AfterPoll(alive, last) = "Failed"
                                        THEN "ServerStartError" ELSE @]
       /\ pc' = [pc EXCEPT ![v] = IF exc # "None" THEN "Failed"
                                  ELSE AfterPoll(alive, last)]
  /\ UNCHANGED <<sess, pub, serving, pending, stateFile, cliFound, artifacts, osEnv, inflight, shows>>

\* lines 182-184: read the token from the state file after the wait loop
ReadState(v) ==
  /\ pc[v] = "Reading"
  /\ LET r == AdoptToken(ReadServerState(stateFile), Addr(v), sess[v].token) IN
       /\ sess' = [sess EXCEPT ![v].token = r.token]
       /\ est' = [est EXCEPT ![v].err = r.raised, ![v].seen = stateFile]
       /\ pc' = [pc EXCEPT ![v] = IF r.raised = "None" THEN "Ready" ELSE "Failed"]
  /\ UNCHANGED <<pub, serving, pending, stateFile, cliFound, artifacts, osEnv, inflight, shows>>

\* a Viewer constructed without default_format (line 144: = "svg")
Construct(v, hostArg, portArg, tokenArg) ==
  ConstructWith(v, hostArg, portArg, tokenArg, NotGiven)

\* lines 157-184, after the arguments are stored
Handshake(v) ==
  \/ Probe(v)
  \/ Adopt(v)
  \/ Launch(v)
  \/ Poll(v)
  \/ ReadState(v)

EstablishWith(v, hosts, ports, tokens) ==
  \/ \E h \in hosts, p \in ports, t \in tokens : Construct(v, h, p, t)
  \/ Handshake(v)

\* Viewer(default_format=f), on the default host and port
EstablishFormat(v, tokens, formats) ==
  \/ \E t \in tokens, f \in formats : ConstructWith(v, "None", NoPort, t, f)
  \/ Handshake(v)

Establish(v) == EstablishWith(v, HostArgs, PortArgs, TokenArgs)

(* ---------------------- Viewer._http_publish -------------------------- *)

SendOps == {"send_png_bytes", "send_svg", "send_plotly_json", "send_vega_json", "send_html"}

\* bytes are numbers 0..255, text is a sequence of one-character strings
B64Alphabet ==
  <<"A", "B", "C", "D", "E", "F", "G", "H", "I", "J", "K", "L", "M",
    "N", "O", "P", "Q", "R", "S", "T", "U", "V", "W", "X", "Y", "Z",
    "a", "b", "c", "d", "e", "f", "g", "h", "i", "j", "k", "l", "m",
    "n", "o", "p", "q", "r", "s", "t", "u", "v", "w", "x", "y", "z",
    "0", "1", "2", "3", "4", "5", "6", "7", "8", "9", "+", "/">>
B64Pad == "="

\* the 6-bit groups of a byte string, three bytes to four groups; -1 marks
\* a padding position of the last group
RECURSIVE Sextets(_)
Sextets(bytes) ==
  IF Len(bytes) = 0 THEN <<>>
  ELSE IF Len(bytes) = 1
       THEN <<bytes[1] \div 4, (bytes[1] % 4) * 16, -1, -1>>
  ELSE IF Len(bytes) = 2
       THEN <<bytes[1] \div 4, (bytes[1] % 4) * 16 + bytes[2] \div 16,
              (bytes[2] % 16) * 4, -1>>
  ELSE <<bytes[1] \div 4, (bytes[1] % 4) * 16 + bytes[2] \div 16,
         (bytes[2] % 16) * 4 + bytes[3] \div 64, bytes[3] % 64>>
       \o Sextets(SubSeq(bytes, 4, Len(bytes)))

b64encode_NoPadding(bytes) ==
  LET g == Sextets(bytes)
      kept == {i \in 1..Len(g) : g[i] # -1}
  IN [i \in 1..Cardinality(kept) |-> B64Alphabet[g[i] + 1]]

\* line 258: base64.b64encode(data).decode("ascii")
b64encode(bytes) ==
  LET g == Sextets(bytes) IN
  [i \in 1..Len(g) |-> IF g[i] = -1 THEN B64Pad ELSE B64Alphabet[g[i] + 1]]

\* the content dict each send_* method passes to _http_publish
Content(op, arg) ==
  [type |-> CASE op = "send_png_bytes" -> "Png" [] op = "send_svg" -> "Svg"
              [] op = "send_plotly_json" -> "Plotly" [] op = "send_vega_json" -> "Vega"
              [] op = "send_html" -> "Html",
   data |-> IF op = "send_png_bytes" THEN b64encode(arg) ELSE arg]

\* an argument for each send_* method, for the runs that do not vary it
SomeArg(op) == IF op = "send_png_bytes" THEN <<137, 80>> ELSE <<"<", "p", ">">>

BuildPayload_AlwaysToken(content, token) == [content |-> content, token |-> token]

\* lines 197-199: payload = {"content": content}; if self._token: payload["token"] = ...
BuildPayload(content, token) ==
  IF Truthy(token) THEN [content |-> content, token |-> token]
  ELSE [content |-> content]

\* the server's check of a request (external): a configured token must be presented
Authenticated(srv, req) == ~Truthy(srv.token) \/ Get(req, "token") = srv.token

Exc(kind, code, accepted) ==
  [kind |-> kind, code |-> code, id |-> 0, accepted |-> accepted, late |-> FALSE]

\* what one urlopen(req, timeout=5) plus reading the body can meet; a
\* request whose attempt timed out is lost, was accepted already, or is
\* still on its way to the server (late); a 200 response carries an id
\* (ok), a JSON object without one (badbody) or no JSON at all (badjson)
TransportOutcomes(srv, req, nextId) ==
  {Exc("URLError", 0, FALSE), Exc("TimeoutError", 0, FALSE)}
  \cup (IF srv.up
        THEN {Exc("HTTPError", c, FALSE) : c \in {400, 499, 500}}
        ELSE {})
  \cup (IF srv.up /\ ~Authenticated(srv, req)
        THEN {Exc("HTTPError", 401, FALSE)}
        ELSE {})
  \cup (IF srv.up /\ Authenticated(srv, req)
        THEN {[kind |-> "ok", code |-> 200, id |-> nextId, accepted |-> TRUE,
               late |-> FALSE],
              [kind |-> "badbody", code |-> 200, id |-> 0, accepted |-> TRUE,
               late |-> FALSE],
              [kind |-> "badjson", code |-> 200, id |-> 0, accepted |-> TRUE,
               late |-> FALSE],
              Exc("TimeoutError", 0, TRUE),
              [Exc("TimeoutError", 0, FALSE) EXCEPT !.late = TRUE]}
        ELSE {})

Classify_RetryMalformed(o) ==
  CASE o.kind = "ok" -> "return"
    [] o.kind = "HTTPError" -> IF 400 <= o.code /\ o.code < 500 THEN "reject" ELSE "retry"
    [] o.kind \in {"URLError", "TimeoutError", "badbody", "badjson"} -> "retry"

Classify_Retry400(o) ==
  CASE o.kind = "ok" -> "return"
    [] o.kind \in {"badbody", "badjson"} -> "propagate"
    [] o.kind = "HTTPError" -> IF 400 < o.code /\ o.code < 500 THEN "reject" ELSE "retry"
    [] o.kind \in {"URLError", "TimeoutError"} -> "retry"

\* lines 210-222: what the try/except does with the outcome of one attempt;
\* no except clause matches what json.loads or result["id"] raises
Classify(o) ==
  CASE o.kind = "ok" -> "return"
    [] o.kind \in {"badbody", "badjson"} -> "propagate"
    [] o.kind = "HTTPError" -> IF 400 <= o.code /\ o.code < 500 THEN "reject" ELSE "retry"
    [] o.kind \in {"URLError", "TimeoutError"} -> "retry"

BackoffDelay_Halving(attempt) == BackoffBaseMs \div Pow2(attempt)

\* line 226: 0.1 * (2 ** attempt)
BackoffDelay(attempt) == BackoffBaseMs * Pow2(attempt)

\* line 225: `if attempt < max_retries - 1`, sleep only between attempts
SleepsAfter(attempt) == attempt < max_retries - 1

LoopEnds_OffByOne(attempt) == attempt + 1 > max_retries

\* line 209: range(max_retries) is used up after iteration `attempt`
LoopEnds(attempt) == attempt + 1 >= max_retries

RecordError_KeepFirst(prev, at, kind) ==
  IF prev.at = 0 THEN [at |-> at, kind |-> kind] ELSE prev

\* lines 220, 222: last_error = e
RecordError(prev, at, kind) == [at |-> at, kind |-> kind]

\* _http_publish is an ordinary blocking call: the caller makes the next
\* call when this one has returned or raised
CanCall_Pipelined(state) == state \in {"Ready", "Attempt"}

CanCall(state) == state = "Ready"

\* lines 256-275, 196-208: the send_* method `op` called with `arg` makes
\* the content and hands it to _http_publish, which builds the request
\* once, before the retry loop
SendCall(v, op, arg) ==
  /\ CanCall(pc[v])
  /\ pub[v].calls < MaxCalls
  /\ pub' = [pub EXCEPT ![v] =
       [calls |-> pub[v].calls + 1, attempt |-> 0,
        req |-> BuildPayload(Content(op, arg), sess[v].token),
        hist |-> <<>>, sleeps |-> <<>>,
        last_error |-> [at |-> 0, kind |-> "None"],
        ret |-> [kind |-> "none"], sent |-> <<>>,
        call |-> [op |-> op, arg |-> arg]]]
  /\ pc' = [pc EXCEPT ![v] = "Attempt"]
  /\ UNCHANGED <<sess, est, serving, pending, stateFile, cliFound, artifacts, osEnv, inflight>>

HttpPublishStart(v, op) == SendCall(v, op, SomeArg(op))

\* lines 256-275: a send_* method called by the user
PublishStart(v, op) == HttpPublishStart(v, op) /\ UNCHANGED shows

\* the server's record of an accepted request: whose it is, the call that
\* sent it, and whether it arrived after its attempt had timed out
Artifact(v, call, late) ==
  [by |-> v, call |-> call, port |-> sess[v].port, late |-> late]

\* lines 209-230: one iteration of the retry loop (the attempt, then the
\* backoff sleep), and the raise that follows the last iteration
AttemptWith(v, kinds, codes, lates) ==
  /\ pc[v] = "Attempt"
  /\ \E o \in TransportOutcomes(serving[sess[v].port], pub[v].req, Len(artifacts) + 1) :
       LET n == pub[v].attempt
           cls == Classify(o)
           err == IF cls = "retry" THEN RecordError(pub[v].last_error, n + 1, o.kind)
                  ELSE pub[v].last_error
           ret == CASE cls = "return" -> [kind |-> "returned", id |-> o.id]
                    [] cls = "propagate" ->
                         [kind |-> "raised",
                          exc |-> IF o.kind = "badjson" THEN "JSONDecodeError"
                                  ELSE "KeyError",
                          why |-> "malformed", cause |-> 0]
                    [] cls = "reject" -> [kind |-> "raised", exc |-> "ServerConnectionError",
                                          why |-> "rejected", cause |-> n + 1]
                    [] cls = "retry" /\ ~LoopEnds(n) -> [kind |-> "none"]
                    [] OTHER -> [kind |-> "raised", exc |-> "ServerConnectionError",
                                 why |-> "exhausted", cause |-> err.at]
       IN
       /\ o.kind \in kinds
       /\ o.code \in codes
       /\ o.late \in lates
       /\ pub' = [pub EXCEPT
            ![v].hist = Append(@, [kind |-> o.kind, code |-> o.code, id |-> o.id]),
            ![v].sent = pub[v].req,
            ![v].last_error = err,
            ![v].ret = ret,
            ![v].sleeps = IF cls = "retry" /\ SleepsAfter(n)
                          THEN Append(@, BackoffDelay(n)) ELSE @,
            ![v].attempt = IF cls = "retry" THEN n + 1 ELSE n]
       /\ pc' = [pc EXCEPT ![v] = IF ret.kind # "none" THEN "Ready" ELSE "Attempt"]
       /\ artifacts' = IF o.accepted
                       THEN Append(artifacts, Artifact(v, pub[v].calls, FALSE))
                       ELSE artifacts
       /\ inflight' = IF o.late
                      THEN inflight \cup {Artifact(v, pub[v].calls, TRUE)}
                      ELSE inflight
  /\ UNCHANGED <<sess, est, serving, pending, stateFile, cliFound, osEnv, shows>>

\* the transport delivers or loses a timed-out request before the next
\* attempt is made
Attempt(v, kinds, codes) == AttemptWith(v, kinds, codes, {FALSE})

\* a request still on its way reaches the server
Deliver(r) ==
  /\ r \in inflight
  /\ serving[r.port].up
  /\ inflight' = inflight \ {r}
  /\ artifacts' = Append(artifacts, r)
  /\ UNCHANGED <<pc, sess, est, pub, serving, pending, stateFile, cliFound, osEnv, shows>>

OutcomeKinds == {"ok", "badbody", "HTTPError", "URLError", "TimeoutError"}
OutcomeCodes == {0, 200, 400, 401, 499, 500}

PublishWith(v, ops, kinds, codes) ==
  \/ \E op \in ops : PublishStart(v, op)
  \/ Attempt(v, kinds, codes)

Publish(v) == PublishWith(v, SendOps, OutcomeKinds, OutcomeCodes)

(* ------------------ Viewer.show, capture, shutdown -------------------- *)

\* what send_object_http probes of an object: whether it is a matplotlib
\* Animation, an array of Axes that yields a Figure, has a non-None .figure,
\* has savefig; the start of its class's module; the export methods it has
Objects ==
  [anim : BOOLEAN, axes : BOOLEAN, figure : BOOLEAN, savefig : BOOLEAN,
   module : {"plotly", "altair", "other"},
   to_plotly_json : BOOLEAN, to_dict : BOOLEAN, to_json : BOOLEAN,
   repr_html : BOOLEAN]

\* a matplotlib Figure, as plt.subplots() and plt.gcf() return it
Figure(hasFigureAttr) ==
  [anim |-> FALSE, axes |-> FALSE, figure |-> hasFigureAttr, savefig |-> TRUE,
   module |-> "other", to_plotly_json |-> FALSE, to_dict |-> FALSE,
   to_json |-> FALSE, repr_html |-> TRUE]

\* the format argument of show: None, or a MatplotlibFormat
ShowFormats == {"None"} \cup MatplotlibFormat

ResolveFormat_DefaultWins(format, default_format) == default_format

\* line 92: fmt = format or getattr(viewer, "_default_format", "svg")
ResolveFormat(format, default_format) ==
  IF Truthy(format) THEN format ELSE default_format

SendMatplotlibHttp_AlwaysPng(fmt) ==
  [raised |-> "None", closes |-> TRUE, op |-> "send_png_bytes"]

\* lines 147-154: savefig, plt.close(fig), then svg goes out with send_svg
\* and anything else with send_png_bytes
SendMatplotlibHttp(fmt) ==
  [raised |-> "None", closes |-> TRUE,
   op |-> IF fmt = "svg" THEN "send_svg" ELSE "send_png_bytes"]

SendAs(op) == [raised |-> "None", closes |-> FALSE, op |-> op]
RaiseIn(exc) == [raised |-> exc, closes |-> FALSE, op |-> "none"]

\* lines 114, 119: obj.to_json() if hasattr(obj, "to_json") else json.dumps(obj.<export>())
JsonExport(obj, hasExport, op) ==
  IF obj.to_json \/ hasExport THEN SendAs(op) ELSE RaiseIn("AttributeError")

\* the branch of send_object_http that was taken, with what it did
Dispatch(path, r) ==
  [path |-> path, raised |-> r.raised, closes |-> r.closes, op |-> r.op]

SendObjectHttp_SavefigFirst(default_format, obj, format) ==
  LET fmt == ResolveFormat(format, default_format) IN
  IF obj.savefig THEN Dispatch("savefig", SendMatplotlibHttp(fmt))
  ELSE IF obj.anim THEN Dispatch("animation", SendAs("send_html"))
  ELSE IF obj.axes THEN Dispatch("axes", SendMatplotlibHttp(fmt))
  ELSE IF obj.figure THEN Dispatch("figure", SendMatplotlibHttp(fmt))
  ELSE IF obj.module = "plotly" \/ obj.to_plotly_json
       THEN Dispatch("plotly", JsonExport(obj, obj.to_plotly_json, "send_plotly_json"))
  ELSE IF obj.module = "altair" \/ obj.to_dict
       THEN Dispatch("vega", JsonExport(obj, obj.to_dict, "send_vega_json"))
  ELSE IF obj.repr_html THEN Dispatch("html", SendAs("send_html"))
  ELSE Dispatch("none", RaiseIn("UnsupportedPlotTypeError"))

\* send_object_http(viewer, obj, format): the first capability that matches
SendObjectHttp(default_format, obj, format) ==
  LET fmt == ResolveFormat(format, default_format) IN
  IF obj.anim THEN Dispatch("animation", SendAs("send_html"))
  ELSE IF obj.axes THEN Dispatch("axes", SendMatplotlibHttp(fmt))
  ELSE IF obj.figure THEN Dispatch("figure", SendMatplotlibHttp(fmt))
  ELSE IF obj.savefig THEN Dispatch("savefig", SendMatplotlibHttp(fmt))
  ELSE IF obj.module = "plotly" \/ obj.to_plotly_json
       THEN Dispatch("plotly", JsonExport(obj, obj.to_plotly_json, "send_plotly_json"))
  ELSE IF obj.module = "altair" \/ obj.to_dict
       THEN Dispatch("vega", JsonExport(obj, obj.to_dict, "send_vega_json"))
  ELSE IF obj.repr_html THEN Dispatch("html", SendAs("send_html"))
  ELSE Dispatch("none", RaiseIn("UnsupportedPlotTypeError"))

\* figures pyplot can hand out
Figures == 1..MaxFigs
NoFigure == 0

\* Viewer.show(obj, format), up to the call of _http_publish; fig names the
\* pyplot figure the object is (NoFigure for anything else), captured
\* tells that the call comes from MatplotlibContext.push
ShowObject(v, obj, format, fig, captured) ==
  LET d == SendObjectHttp(sess[v].default_format, obj, format)
      last == [kind |-> "show", obj |-> obj, format |-> format, fig |-> fig,
               path |-> d.path, raised |-> d.raised, op |-> d.op,
               call |-> IF d.raised = "None" THEN pub[v].calls + 1 ELSE 0]
  IN
  /\ CanCall(pc[v])
  /\ shows' = [shows EXCEPT
       ![v].last = last,
       ![v].closed = IF d.closes /\ fig # NoFigure THEN @ \cup {fig} ELSE @,
       ![v].captured = IF captured THEN Append(@, fig) ELSE @]
  /\ IF d.raised = "None"
     THEN HttpPublishStart(v, d.op)
     ELSE UNCHANGED <<pc, sess, est, pub, serving, pending, stateFile, cliFound,
                      artifacts, osEnv, inflight>>

\* lines 232-254
Show(v, objs, formats) ==
  \E obj \in objs, format \in formats : ShowObject(v, obj, format, NoFigure, FALSE)

Shutdown_DropsToken(v) ==
  /\ CanCall(pc[v])
  /\ shows' = [shows EXCEPT ![v].shut = TRUE]
  /\ sess' = [sess EXCEPT ![v].token = "None"]
  /\ UNCHANGED <<pc, est, pub, serving, pending, stateFile, cliFound, artifacts,
                 osEnv, inflight>>

\* lines 280-282: `pass`; shows[v].shut only notes that it was called
Shutdown(v) ==
  /\ CanCall(pc[v])
  /\ shows' = [shows EXCEPT ![v].shut = TRUE]
  /\ UNCHANGED <<pc, sess, est, pub, serving, pending, stateFile, cliFound, artifacts,
                 osEnv, inflight>>

\* lines 277-278, 288-293: `with viewer.capture() as ctx`
Capture(v) ==
  /\ CanCall(pc[v])
  /\ shows[v].ctx = "none"
  /\ shows' = [shows EXCEPT ![v].ctx = "open", ![v].captured = <<>>]
  /\ UNCHANGED <<pc, sess, est, pub, serving, pending, stateFile, cliFound, artifacts,
                 osEnv, inflight>>

\* lines 295-300: fig = plt.gcf(), an open figure; remember it; show it
Push(v) ==
  /\ shows[v].ctx = "open"
  /\ pub[v].calls < MaxCalls
  /\ \E fig \in Figures \ shows[v].closed, hasFigureAttr \in BOOLEAN :
       ShowObject(v, Figure(hasFigureAttr), "None", fig, TRUE)

ExitContext_CloseAll(v) ==
  /\ CanCall(pc[v])
  /\ shows[v].ctx = "open"
  /\ shows' = [shows EXCEPT ![v].closed = Figures, ![v].captured = <<>>,
                            ![v].ctx = "exited"]
  /\ UNCHANGED <<pc, sess, est, pub, serving, pending, stateFile, cliFound, artifacts,
                 osEnv, inflight>>

\* lines 302-308: leaving the with block, normally or by an exception
ExitContext(v) ==
  /\ CanCall(pc[v])
  /\ shows[v].ctx = "open"
  /\ shows' = [shows EXCEPT
       ![v].closed = @ \cup {shows[v].captured[i] : i \in 1..Len(shows[v].captured)},
       ![v].captured = <<>>,
       ![v].ctx = "exited"]
  /\ UNCHANGED <<pc, sess, est, pub, serving, pending, stateFile, cliFound, artifacts,
                 osEnv, inflight>>

ServerStep == \E p \in pending : ServerWriteState(p) \/ ServerBind(p)

Next == (\E v \in {1} : Establish(v) \/ Publish(v)) \/ ServerStep

Spec == Init /\ [][Next]_vars

\* one Viewer publishing with one send_* method; the caller's thread runs
\* on, and a starting server process keeps going
FairNext ==
  \/ Establish(1)
  \/ PublishWith(1, {"send_svg"}, OutcomeKinds, OutcomeCodes)
  \/ ServerStep

FairSpec ==
  /\ InitWith({FileMissing, FileJson(StateRecord(AddrStr(DEFAULT_HOST, DEFAULT_PORT), "tok0"))})
  /\ [][FairNext]_vars
  /\ WF_vars(Establish(1) \/ PublishWith(1, {"send_svg"}, OutcomeKinds, OutcomeCodes))
  /\ WF_vars(ServerStep)

\* two Viewers constructed one after the other that then publish, as in
\* test_client_mode.py, with send_svg over a transport that answers every request
InitTwo ==
  InitWith({FileMissing} \cup {FileJson(StateRecord(AddrStr(DEFAULT_HOST, p), "tok0")) : p \in Ports})

Constructed(v) == pc[v] \in {"Ready", "Attempt", "Failed"}

NextTwo ==
  \/ EstablishWith(1, {"None"}, PortArgs, {"None", "tokA"})
  \/ Constructed(1) /\ EstablishWith(2, {"None"}, PortArgs, {"None", "tokA"})
  \/ /\ \A v \in Viewers : Constructed(v)
     /\ \E v \in Viewers : PublishWith(v, {"send_svg"}, {"ok", "HTTPError"}, {200, 401})
  \/ ServerStep

SpecTwo == InitTwo /\ [][NextTwo]_vars

\* one Viewer, established on the default address, on which the user calls
\* show, send_svg, capture / push / exit and shutdown in any order
OpObjects ==
  {Figure(TRUE),
   [Figure(FALSE) EXCEPT !.anim = TRUE],
   [Figure(FALSE) EXCEPT !.savefig = FALSE, !.repr_html = FALSE]}

InitOps ==
  InitEnv({FileMissing, FileJson(StateRecord(AddrStr(DEFAULT_HOST, DEFAULT_PORT), "tok0"))},
          {NoServer, Server("tok0"), Server("None")}, {UnixStarts})

NextOps ==
  \/ EstablishFormat(1, {"None", "tokA"}, {NotGiven})
  \/ Show(1, OpObjects, {"png"})
  \/ PublishWith(1, {"send_svg"}, {"ok", "HTTPError", "URLError"}, {0, 200, 400})
  \/ Shutdown(1)
  \/ Capture(1)
  \/ Push(1)
  \/ ExitContext(1)
  \/ ServerStep

SpecOps == InitOps /\ [][NextOps]_vars

\* one Viewer published with over a transport on which a timed-out request
\* may still be on its way
PublishLate(v, ops, kinds, codes) ==
  \/ \E op \in ops : PublishStart(v, op)
  \/ AttemptWith(v, kinds, codes, BOOLEAN)

InitOrder == InitEnv({FileMissing}, {NoServer, Server("None")}, {UnixStarts})

NextOrder ==
  \/ EstablishFormat(1, {"None"}, {NotGiven})
  \/ PublishLate(1, {"send_svg"}, {"ok", "TimeoutError", "HTTPError"}, {0, 200, 400})
  \/ (\E r \in inflight : Deliver(r))
  \/ ServerStep

SpecOrder == InitOrder /\ [][NextOrder]_vars

\* two Viewers constructed at the same time with default arguments
InitRace ==
  InitEnv({FileMissing, FileJson(StateRecord(AddrStr(DEFAULT_HOST, DEFAULT_PORT), "tok0"))},
          {NoServer}, {UnixStarts})

NextRace ==
  \/ \E v \in Viewers : EstablishFormat(v, {"None"}, {NotGiven})
  \/ ServerStep

SpecRace ==
  /\ InitRace
  /\ [][NextRace]_vars
  /\ \A v \in Viewers : WF_vars(EstablishFormat(v, {"None"}, {NotGiven}))
  /\ WF_vars(ServerStep)

\* one Viewer constructed in every environment: any state file, the port
\* free, served or held by another service, any platform
InitEnvs == InitEnv(AllFiles, {NoServer, Server("tok0"), Foreign}, AllOsEnvs)

NextEnvs ==
  \/ EstablishFormat(1, {"None", "tokA"}, {NotGiven})
  \/ ServerStep

SpecEnvs == InitEnvs /\ [][NextEnvs]_vars

\* one Viewer constructed with any default_format, and its first show, of
\* any object with any format, to a server that answers every request
InitShow == InitEnv({FileMissing}, {NoServer, Server("None")}, {UnixStarts})

NextShow ==
  \/ EstablishFormat(1, {"None"}, FormatArgs)
  \/ (shows[1].last.kind = "none" /\ Show(1, Objects, ShowFormats))
  \/ Attempt(1, {"ok", "HTTPError"}, {200, 400})
  \/ ServerStep

SpecShow == InitShow /\ [][NextShow]_vars

\* two Viewers constructed one after the other, each publishing over a
\* transport that can refuse, reject, or answer 200 with any body
InitKinds == InitEnv({FileMissing}, {NoServer, Server("None")}, {UnixStarts})

NextKinds ==
  \/ EstablishFormat(1, {"None"}, {NotGiven})
  \/ Constructed(1) /\ EstablishFormat(2, {"None"}, {NotGiven})
  \/ \E v \in Viewers :
       PublishWith(v, {"send_svg"}, {"ok", "badbody", "badjson", "HTTPError", "URLError"},
                   {0, 200, 400})
  \/ ServerStep

SpecKinds == InitKinds /\ [][NextKinds]_vars

\* two Viewers constructed at the same time, the first on the default port
\* and the second on either port, each with or without a token of its own
InitStale == InitEnv({FileMissing}, {NoServer}, {UnixStarts})

NextStale ==
  \/ EstablishWith(1, {"None"}, {NoPort}, {"None", "tokA"})
  \/ EstablishWith(2, {"None"}, Ports, {"None", "tokA"})
  \/ ServerStep

SpecStale == InitStale /\ [][NextStale]_vars

\* the arguments the send_* methods are called with: byte strings of up to
\* MaxBytes bytes, and texts, one of which reads like base64
SampleBytes == {0, 77, 128, 255}
ByteStrings == UNION {[1..n -> SampleBytes] : n \in 0..MaxBytes}
Texts == {<<>>, <<"<", "p", ">">>, <<"a", "Q", "=", "=">>, <<"{", "}">>}
SendArgs(op) == IF op = "send_png_bytes" THEN ByteStrings ELSE Texts

\* one Viewer on which the user calls every send_* method with every argument
InitFrame == InitEnv({FileMissing}, {NoServer, Server("None")}, {UnixStarts})

NextFrame ==
  \/ EstablishFormat(1, {"None", "tokA"}, {NotGiven})
  \/ \E op \in SendOps : \E arg \in SendArgs(op) : SendCall(1, op, arg) /\ UNCHANGED shows
  \/ Attempt(1, {"ok"}, {200})
  \/ ServerStep

SpecFrame == InitFrame /\ [][NextFrame]_vars

(* ============================== claims ================================ *)

Established(v) == pc[v] \in {"Ready", "Attempt"}
InCall(v) == pc[v] = "Attempt"
Finished(v) == pc[v] = "Ready" /\ pub[v].ret.kind # "none"

\* a failure the retry policy calls retryable: connection failure, timeout, 5xx
RetryableFailure(h) ==
  \/ h.kind \in {"URLError", "TimeoutError"}
  \/ h.kind = "HTTPError" /\ h.code >= 500 /\ h.code <= 599
Is4xx(h) == h.kind = "HTTPError" /\ h.code >= 400 /\ h.code <= 499

\* C1: when the first two attempts of a publish call fail retryably and the
\* third succeeds, publish returns the identifier of the third response after
\* exactly 3 attempts, and the second backoff delay is at least the first.
C1_PublishRetry ==
  \A v \in Viewers :
    LET p == pub[v] IN
    (Len(p.hist) >= 3 /\ RetryableFailure(p.hist[1]) /\ RetryableFailure(p.hist[2])
       /\ p.hist[3].kind = "ok")
    => /\ pc[v] = "Ready"
       /\ p.ret = [kind |-> "returned", id |-> p.hist[3].id]
       /\ Len(p.hist) = 3
       /\ Len(p.sleeps) = 2
       /\ p.sleeps[2] >= p.sleeps[1]
       /\ p.sleeps[1] > 0

C1_Witness ==
  /\ Len(pub[1].hist) = 3
  /\ pub[1].hist[1].kind = "URLError"
  /\ pub[1].hist[2].kind = "HTTPError" /\ pub[1].hist[2].code = 500
  /\ pub[1].hist[3].kind = "ok"
  /\ pub[1].ret.kind = "returned"

\* C2: an attempt that receives a 4xx response is the last attempt of its
\* call: publish fails at once with the rejection error, no attempt and no
\* backoff sleep follows it; a 4xx on the first attempt gives exactly 1 attempt.
C2_PublishNonRetry ==
  \A v \in Viewers :
    LET p == pub[v] IN
    \A i \in 1..Len(p.hist) :
      Is4xx(p.hist[i])
      => /\ i = Len(p.hist)
         /\ pc[v] = "Ready"
         /\ p.ret.kind = "raised" /\ p.ret.exc = "ServerConnectionError"
         /\ p.ret.why = "rejected" /\ p.ret.cause = i
         /\ Len(p.sleeps) = i - 1

C2_Witness ==
  /\ Len(pub[1].hist) = 1
  /\ pub[1].hist[1].kind = "HTTPError" /\ pub[1].hist[1].code = 400
  /\ pub[1].ret.kind = "raised" /\ pub[1].ret.why = "rejected"
  /\ pub[1].sleeps = <<>>

OutcomeOf(p) ==
  CASE p.ret.kind = "returned" -> "success"
    [] p.ret.kind = "raised" /\ p.ret.why = "rejected" -> "rejection"
    [] p.ret.kind = "raised" /\ p.ret.why = "exhausted" -> "exhaustion"
    [] OTHER -> "other"

C4_OutcomesInv ==
  \A v \in Viewers :
    LET p == pub[v]
        n == Len(p.hist)
    IN
    /\ n <= max_retries
    /\ p.attempt <= max_retries
    /\ InCall(v) => p.ret.kind = "none" /\ p.attempt < max_retries
    /\ Finished(v)
       => /\ n >= 1
          /\ \/ p.ret.kind = "returned" /\ p.hist[n].kind = "ok" /\ p.ret.id = p.hist[n].id
             \/ /\ p.ret.kind = "raised" /\ p.ret.why = "rejected"
                /\ Is4xx(p.hist[n])
             \/ /\ p.ret.kind = "raised" /\ p.ret.why = "exhausted"
                /\ n = max_retries /\ \A i \in 1..n : RetryableFailure(p.hist[i])
             \/ /\ p.ret.kind = "raised" /\ p.ret.why = "malformed"
                /\ p.hist[n].kind = "badbody" /\ p.hist[n].code = 200

Matching(file, addr) ==
  file.cond = "json" /\ file.doc.kind = "dict" /\ Get(file.doc.val, "addr") = addr
FileToken(file) == Get(file.doc.val, "token")

\* C5 as stated: a session established by adoption, with a state file whose
\* address matches, is Ready with the state file's token after one probe and
\* no launch.
C5_AdoptionAnyToken ==
  \A v \in Viewers :
    (est[v].via = "adopt" /\ Matching(est[v].seen, Addr(v)))
    => /\ Established(v)
       /\ sess[v].token = FileToken(est[v].seen)
       /\ est[v].spawns = 0
       /\ est[v].probes = 1

\* C5 (amended): when the first health probe is answered, the state file's
\* address matches and the caller supplied no token, establishment reaches
\* Ready with the state file's token, without a launch and without a further
\* probe; a token the caller supplied is kept instead.
C5_SessionAdoption ==
  \A v \in Viewers :
    (est[v].via = "adopt" /\ Matching(est[v].seen, Addr(v)))
    => /\ Established(v)
       /\ ~Truthy(est[v].tokenArg) => sess[v].token = FileToken(est[v].seen)
       /\ Truthy(est[v].tokenArg) => sess[v].token = est[v].tokenArg
       /\ est[v].spawns = 0
       /\ est[v].probes = 1
       /\ est[v].polls = 0

C5_Witness ==
  /\ pc[1] = "Ready"
  /\ est[1].via = "adopt"
  /\ Matching(est[1].seen, Addr(1))
  /\ est[1].tokenArg = "None"
  /\ sess[1].token = "tok0"

\* C6: on the launch path the wait loop stops at the first healthy probe, so
\* a session that became Ready has made exactly as many probes as it took to
\* see the first healthy one (3 when the 3rd is the first healthy one), after
\* one launch, and holds the token of the matching state record it then read.
C6_LaunchAndWait ==
  \A v \in Viewers :
    (est[v].via = "launch" /\ (pc[v] = "Reading" \/ Established(v)))
    => /\ est[v].healthyAt >= 2
       /\ est[v].probes = est[v].healthyAt
       /\ est[v].polls = est[v].probes - 1
       /\ est[v].spawns = 1
       /\ (Established(v) /\ Matching(est[v].seen, Addr(v)))
          => sess[v].token = FileToken(est[v].seen)

C6_Witness ==
  /\ pc[1] = "Ready"
  /\ est[1].via = "launch"
  /\ est[1].probes = 3 /\ est[1].healthyAt = 3
  /\ Matching(est[1].seen, Addr(1))
  /\ sess[1].token = "gen1"

C7_DeadlineInv ==
  \A v \in Viewers :
    /\ est[v].polls <= MaxPolls
    /\ pc[v] = "Waiting" => est[v].polls < MaxPolls /\ est[v].healthyAt = 0
    /\ est[v].healthyAt = 0 => ~Established(v) /\ pc[v] # "Reading"
    /\ (est[v].polls = MaxPolls /\ est[v].healthyAt = 0)
       => pc[v] = "Failed" /\ est[v].err = "ServerStartError"
    /\ est[v].err = "ServerStartError"
       => /\ pc[v] = "Failed"
          /\ est[v].polls = MaxPolls
          /\ est[v].probes = MaxPolls + 1
          /\ est[v].healthyAt = 0
          /\ est[v].spawns = 1

\* C7: after a successful launch, when no probe is ever healthy the wait
\* loop ends after 50 polls in Failed with ServerStartError; the session is
\* never Ready without a healthy probe, and the wait always comes to an end.
C7_StartupDeadline ==
  /\ []C7_DeadlineInv
  /\ \A v \in {1} : (pc[v] = "Waiting") ~> (pc[v] \in {"Reading", "Failed"})

C7_Witness ==
  /\ pc[1] = "Failed"
  /\ est[1].err = "ServerStartError"
  /\ est[1].polls = 50
  /\ est[1].healthyAt = 0

\* C8: when the launcher returns false, establishment is Failed with
\* CLINotFoundError after the one initial probe: the wait loop never polls,
\* and the launcher was invoked once.
C8_BinaryMissing ==
  \A v \in Viewers :
    /\ (est[v].via = "launch" /\ ~cliFound)
       => /\ pc[v] = "Failed"
          /\ est[v].err = "CLINotFoundError"
    /\ est[v].err = "CLINotFoundError"
       => /\ pc[v] = "Failed"
          /\ ~cliFound
          /\ est[v].polls = 0
          /\ est[v].probes = 1
          /\ est[v].spawns = 1
          /\ \A p \in pending : p.by # v

C8_Witness ==
  /\ pc[1] = "Failed"
  /\ est[1].err = "CLINotFoundError"
  /\ est[1].spawns = 1
  /\ est[1].polls = 0

\* the second Viewer was constructed when the first was Ready, for the same
\* host:port, and neither was given a token
Reuse ==
  /\ 1 \in est[2].after
  /\ Addr(1) = Addr(2)
  /\ est[1].tokenArg = "None" /\ est[2].tokenArg = "None"

\* a publish by v is accepted by the server at its address
CanPublish(v) ==
  LET srv == serving[sess[v].port] IN
  srv.up /\ Authenticated(srv, BuildPayload(Content("send_svg", SomeArg("send_svg")), sess[v].token))

\* the token of the server at v's address is open to v: the server needs
\* none, or the first Viewer started it, or the state file v read is its record
TokenKnown(v) ==
  LET srv == serving[sess[v].port] IN
  \/ srv.up /\ ~Truthy(srv.token)
  \/ est[1].via = "launch"
  \/ srv.up /\ Matching(est[v].seen, Addr(v)) /\ FileToken(est[v].seen) = srv.token

C10_TokenInvariant ==
  \A v \in Viewers :
    LET r == pub[v].sent IN
    r # <<>>
    => /\ Truthy(sess[v].token) => "token" \in DOMAIN r /\ r.token = sess[v].token
       /\ ~Truthy(sess[v].token) => "token" \notin DOMAIN r
       /\ "content" \in DOMAIN r

C10_Witness ==
  /\ Len(pub[1].hist) = 3
  /\ pub[1].calls = 2
  /\ "token" \in DOMAIN pub[1].sent
  /\ pub[1].sent.token = "gen1"

\* C11: once establishment has succeeded no operation (a publish with any
\* outcome, show, capture, push, exit, shutdown) changes the session's host,
\* port or token; a shutdown step changes nothing of the client or the
\* server, and after it a publish can be started as before and its requests
\* carry the same token.
C11_SessionImmutable ==
  /\ [][\A v \in Viewers : Established(v) => sess'[v] = sess[v]]_vars
  /\ [][\A v \in Viewers :
          (shows'[v].shut /\ ~shows[v].shut)
          => UNCHANGED <<pc, sess, est, pub, serving, pending, stateFile, artifacts,
                         inflight>>]_vars
  /\ [](\A v \in Viewers :
          shows[v].shut
          => /\ Established(v)
             /\ (pc[v] = "Ready" /\ pub[v].calls < MaxCalls)
                => ENABLED PublishStart(v, "send_svg")
             /\ (InCall(v) /\ Truthy(sess[v].token))
                => Get(pub[v].req, "token") = sess[v].token)

C11_Witness ==
  /\ shows[1].shut
  /\ sess[1].token = "gen1"
  /\ shows[1].ctx = "exited"
  /\ shows[1].last.kind = "show"
  /\ pub[1].calls = 2
  /\ pub[1].ret.kind = "returned"
  /\ Len(pub[1].hist) = 1

\* C12: Ready and Failed exclude each other and are final; an establishment
\* that failed surfaced CLINotFoundError or ServerStartError, one for each
\* cause; a client that never reached Ready has sent no publish request.
C12_FailedEstablishment ==
  \A v \in Viewers :
    /\ pc[v] = "Failed"
       => /\ est[v].err \in {"CLINotFoundError", "ServerStartError"}
          /\ est[v].err = "CLINotFoundError" <=> est[v].spawned = "False"
          /\ est[v].err = "ServerStartError" <=> est[v].polls = MaxPolls
    /\ ~Established(v)
       => /\ pub[v] = NoPub
          /\ \A i \in 1..Len(artifacts) : artifacts[i].by # v

\* the calls whose artifacts reached the server, in arrival order, of Viewer v
RECURSIVE CallsOf(_, _)
CallsOf(arts, v) ==
  IF arts = <<>> THEN <<>>
  ELSE IF Head(arts).by = v THEN <<Head(arts).call>> \o CallsOf(Tail(arts), v)
  ELSE CallsOf(Tail(arts), v)

\* the artifacts that arrived while the attempt that sent them was running
RECURSIVE Prompt(_)
Prompt(arts) ==
  IF arts = <<>> THEN <<>>
  ELSE IF Head(arts).late THEN Prompt(Tail(arts))
  ELSE <<Head(arts)>> \o Prompt(Tail(arts))

NonDecreasing(q) == \A i, j \in 1..Len(q) : i < j => q[i] <= q[j]

Race ==
  /\ Addr(1) = Addr(2)
  /\ \A v \in Viewers :
       /\ est[v].via = "launch" /\ est[v].spawns = 1
       /\ est[v].launched = "starts"

RaceSettled ==
  /\ \A v \in Viewers : pc[v] = "Ready"
  /\ pending = {}
  /\ serving[DEFAULT_PORT].up
  /\ serving[DEFAULT_PORT].token \in {"gen1", "gen2"}

StateFileErrors == {"AttributeError", "UnicodeDecodeError"}

\* C15: whatever the state file holds, no establishment is aborted by it:
\* an establishment that read the file ends Ready (never Failed) with the
\* file treated as absent unless it is a matching record.
C15_StateFailsSoft ==
  \A v \in Viewers :
    /\ est[v].err \notin StateFileErrors
    /\ (est[v].via = "adopt" /\ pc[v] # "Adopting") => Established(v)
    /\ (Established(v) /\ ~Matching(est[v].seen, Addr(v)))
       => sess[v].token = est[v].tokenArg

\* C16: the health probe returns a boolean for whatever it meets and never
\* raises: no establishment ends with an exception out of the probe, and a
\* probe counts as healthy only on a 200 response of a server.
C16_ProbeBoolean ==
  \A v \in Viewers :
    /\ est[v].err \notin {"BadStatusLine"}
    /\ est[v].healthyAt > 0 => serving[sess[v].port].up
    /\ est[v].probes > 0 => pc[v] # "Probing"

\* C17: when the executable is found but the OS cannot start it, spawn
\* returns False on every platform, so establishment fails at once without
\* polling; spawn returns True only when a process was started.
C17_SpawnFailureIsValue ==
  \A v \in Viewers :
    /\ (est[v].spawns = 1 /\ cliFound /\ ~osEnv.starts)
       => (est[v].spawned = "False" /\ pc[v] = "Failed" /\ est[v].polls = 0)
    /\ est[v].spawned = "True" => est[v].launched # "none"

\* the capabilities of an object in the order of precedence, and the first
\* one it has
Capabilities(obj) ==
  <<obj.anim, obj.axes, obj.figure, obj.savefig,
    obj.module = "plotly" \/ obj.to_plotly_json,
    obj.module = "altair" \/ obj.to_dict,
    obj.repr_html>>
CapabilityNames == <<"animation", "axes", "figure", "savefig", "plotly", "vega", "html">>
FirstCapability(obj) ==
  LET caps == Capabilities(obj)
      has == {i \in 1..Len(caps) : caps[i]}
  IN IF has = {} THEN "none"
     ELSE CapabilityNames[CHOOSE i \in has : \A j \in has : i <= j]

\* the kind each branch sends
KindOfPath(path, kind) ==
  CASE path = "animation" -> kind = "Html"
    [] path \in {"axes", "figure", "savefig"} -> kind \in {"Png", "Svg"}
    [] path = "plotly" -> kind = "Plotly"
    [] path = "vega" -> kind = "Vega"
    [] path = "html" -> kind = "Html"
    [] OTHER -> FALSE

\* the last show of v got as far as a publish call, which is the current one
Shown(v) ==
  /\ shows[v].last.kind = "show"
  /\ shows[v].last.raised = "None"
  /\ shows[v].last.call = pub[v].calls

\* C18: show takes the branch of the first capability the object has, in the
\* order animation, axes array, figure attribute, savefig, Plotly, Vega,
\* HTML, and sends that branch's kind; an animation that also has savefig
\* goes out as Html, never as Png or Svg.
C18_CapabilityPrecedence ==
  \A v \in Viewers :
    LET l == shows[v].last IN
    l.kind = "show"
    => /\ l.path = FirstCapability(l.obj)
       /\ l.path = "none" <=> l.raised = "UnsupportedPlotTypeError"
       /\ Shown(v)
          => /\ KindOfPath(l.path, pub[v].req.content.type)
             /\ l.obj.anim => pub[v].req.content.type = "Html"

C18_Witness ==
  /\ Shown(1)
  /\ shows[1].last.obj.anim /\ shows[1].last.obj.savefig /\ shows[1].last.obj.figure
  /\ shows[1].last.path = "animation"
  /\ pub[1].ret.kind = "returned"
  /\ pub[1].sent.content.type = "Html"

\* the kind a format name selects
KindOfFormat(fmt) == IF fmt = "svg" THEN "Svg" ELSE "Png"

FigureLike(obj) == FirstCapability(obj) \in {"axes", "figure", "savefig"}

Smoke(v) ==
  /\ Shown(v)
  /\ est[v].formatArg = NotGiven
  /\ est[v].tokenArg = "None"
  /\ shows[v].last.format = "None"
  /\ shows[v].last.obj \in {Figure(TRUE), Figure(FALSE)}
  /\ pub[v].ret.kind = "returned"

\* the artifact the server holds under the id that show returned was made
\* from this call's request, whose kind is `kind`
ArrivedAs(v, kind) ==
  LET id == pub[v].ret.id IN
  /\ id \in 1..Len(artifacts)
  /\ artifacts[id].by = v
  /\ artifacts[id].call = pub[v].calls
  /\ pub[v].sent.content.type = kind

Unusable(obj) ==
  /\ ~obj.anim /\ ~obj.axes /\ ~obj.figure /\ ~obj.savefig
  /\ ~obj.to_plotly_json /\ ~obj.to_dict /\ ~obj.repr_html
  /\ obj.module = "other" \/ ~obj.to_json

\* C21: show of an object that offers no usable capability, an object known
\* only by its plotly or altair module included, fails with
\* UnsupportedPlotTypeError and with no other error, and sends no request.
C21_UnsupportedContent ==
  \A v \in Viewers :
    LET l == shows[v].last IN
    (l.kind = "show" /\ Unusable(l.obj))
    => /\ l.raised = "UnsupportedPlotTypeError"
       /\ l.call = 0
       /\ pub[v].calls = 0

\* the publish call of v has ended with an error
Raised(v) == Finished(v) /\ pub[v].ret.kind = "raised"

\* C22: rejection (4xx), retry exhaustion and a malformed 200 response
\* surface as three different kinds of error: two calls that failed for
\* different reasons raised errors of different classes.
C22_DistinctKinds ==
  \A v, w \in Viewers :
    (Raised(v) /\ Raised(w) /\ pub[v].ret.why # pub[w].ret.why)
    => pub[v].ret.exc # pub[w].ret.exc

Malformed(h) == h.kind \in {"badbody", "badjson"}

\* C23: a 200 response without an id, or one that is not JSON, ends the
\* call on that attempt with an error: nothing is returned, no further
\* attempt or sleep follows, and the error is not turned into exhaustion.
C23_MalformedResponse ==
  \A v \in Viewers :
    LET p == pub[v]
        n == Len(p.hist)
    IN
    \A i \in 1..n :
      Malformed(p.hist[i])
      => /\ i = n
         /\ Raised(v)
         /\ p.ret.why = "malformed"
         /\ p.ret.exc = (IF p.hist[i].kind = "badjson" THEN "JSONDecodeError"
                         ELSE "KeyError")
         /\ p.attempt = n - 1
         /\ Len(p.sleeps) = n - 1
         /\ \A j \in 1..(n - 1) : RetryableFailure(p.hist[j])

C23_Witness ==
  /\ Raised(1)
  /\ Len(pub[1].hist) = 2
  /\ pub[1].hist[1].kind = "URLError"
  /\ pub[1].hist[2].kind = "badjson"
  /\ pub[1].ret.exc = "JSONDecodeError"
  /\ pub[1].sleeps = <<BackoffDelay(0)>>

\* the kind each send_* method stands for
KindOfOp(op) ==
  CASE op = "send_png_bytes" -> "Png" [] op = "send_svg" -> "Svg"
    [] op = "send_plotly_json" -> "Plotly" [] op = "send_vega_json" -> "Vega"
    [] op = "send_html" -> "Html"

\* base64 text: groups of four characters of the alphabet, the last group
\* ending in at most two pad characters
ValidBase64(text) ==
  LET n == Len(text)
      chars == {B64Alphabet[i] : i \in 1..Len(B64Alphabet)}
  IN
  /\ n % 4 = 0
  /\ \A i \in 1..n : text[i] \in chars \/ (text[i] = B64Pad /\ i >= n - 1)
  /\ n > 0 /\ text[n - 1] = B64Pad => text[n] = B64Pad

B64Index(c) == (CHOOSE i \in 1..Len(B64Alphabet) : B64Alphabet[i] = c) - 1

\* decoding of valid base64 text, four characters to three bytes
RECURSIVE b64decode(_)
b64decode(text) ==
  IF Len(text) = 0 THEN <<>>
  ELSE LET s1 == B64Index(text[1])
           s2 == B64Index(text[2])
           b1 == s1 * 4 + s2 \div 16
       IN
       IF text[3] = B64Pad THEN <<b1>>
       ELSE LET s3 == B64Index(text[3])
                b2 == (s2 % 16) * 16 + s3 \div 4
            IN
            IF text[4] = B64Pad THEN <<b1, b2>>
            ELSE <<b1, b2, (s3 % 4) * 64 + B64Index(text[4])>>
                 \o b64decode(SubSeq(text, 5, Len(text)))

\* C24: the request of send_png_bytes has kind Png and data that is valid
\* base64 and decodes to the bytes given; the other send_* methods send
\* their kind with the text given, unchanged; the content of every request
\* is one type and one data field.
C24_PayloadFraming ==
  \A v \in Viewers :
    LET c == pub[v].req.content
        call == pub[v].call
    IN
    pub[v].calls > 0
    => /\ DOMAIN c = {"type", "data"}
       /\ c.type = KindOfOp(call.op)
       /\ call.op = "send_png_bytes"
          => /\ ValidBase64(c.data)
             /\ b64decode(c.data) = call.arg
             /\ b64encode(b64decode(c.data)) = c.data
       /\ call.op # "send_png_bytes" => c.data = call.arg
       /\ pub[v].sent # <<>> => pub[v].sent.content = c

C24_Witness ==
  /\ pub[1].call = [op |-> "send_png_bytes", arg |-> <<255, 0>>]
  /\ pub[1].ret.kind = "returned"
  /\ pub[1].sent.content = [type |-> "Png", data |-> <<"/", "w", "A", "=">>]

C26_TokenConsistency ==
  \A v \in Viewers :
    (pc[v] = "Ready" /\ (~Truthy(est[v].tokenArg) \/ est[v].via = "launch"))
    => CanPublish(v)

\* the artifacts the server made from call c of v
ArtifactsOf(v, c) ==
  {i \in 1..Len(artifacts) : artifacts[i].by = v /\ artifacts[i].call = c}

\* C27: the server accepts at most one artifact for a publish call, and
\* exactly one for a call that returned an identifier.
C27_NoDuplicate ==
  \A v \in Viewers :
    \A c \in 1..pub[v].calls :
      /\ Cardinality(ArtifactsOf(v, c)) <= 1
      /\ (c = pub[v].calls /\ pub[v].ret.kind = "returned")
         => Cardinality(ArtifactsOf(v, c)) = 1

Range(q) == {q[i] : i \in 1..Len(q)}

\* show of a pyplot figure has closed it by the time the request is built,
\* before any attempt to send; so every figure pushed so far is closed
C28_ShowCloses ==
  \A v \in Viewers :
    LET l == shows[v].last IN
    /\ (l.kind = "show" /\ l.fig # NoFigure) => l.fig \in shows[v].closed
    /\ Range(shows[v].captured) \subseteq shows[v].closed
    /\ shows[v].ctx = "exited" => shows[v].captured = <<>>

\* leaving the context closes the captured figures, empties the list, and
\* closes nothing else
C28_ExitStep ==
  \A v \in Viewers :
    (shows[v].ctx = "open" /\ shows'[v].ctx = "exited")
    => /\ Range(shows[v].captured) \subseteq shows'[v].closed
       /\ shows'[v].captured = <<>>
       /\ shows'[v].closed \ shows[v].closed \subseteq Range(shows[v].captured)

\* C28: once a capture() context is left, after any pushes and whether the
\* publishes succeeded or not, every figure pushed in it is closed, its
\* list is empty and no other figure was closed; show closes a figure
\* after encoding it and before the request is sent.
C28_FigureRelease == []C28_ShowCloses /\ [][C28_ExitStep]_vars

C28_Witness ==
  /\ shows[1].ctx = "exited"
  /\ shows[1].captured = <<>>
  /\ Cardinality(shows[1].closed) = 2
  /\ pub[1].calls = 2
  /\ pub[1].ret.kind = "raised"
  /\ Len(artifacts) = 1
====
